---- MODULE Spec2Model ----
(***************************************************************************)
(* A model of the dimensional report rewriter (src/services/excelService.ts *)
(* and its caller in src/App.tsx).                                          *)
(*                                                                          *)
(* Numbers.  A JavaScript number is modelled as an exact fixed-point value: *)
(* the integer x stands for x / UNIT.  UNIT is a multiple of 60 (one        *)
(* arc-minute is exact) and of 1000 (three decimals are exact), so every    *)
(* operation of the code on the values used here is computed exactly,       *)
(* except where a comment says that a product is truncated to the grid.     *)
(* Binary floating-point noise is not modelled.                             *)
(*                                                                          *)
(* Strings.  A JavaScript string is modelled as the sequence of its lexical *)
(* tokens: a maximal run of decimal digits is one token D(n, w) (value n,   *)
(* w characters, so that leading zeros are kept), every other character is  *)
(* one token Ch(c) (the degree glyph is Ch("deg")).  The regular expressions of the code are translated to  *)
(* matchers over these sequences.                                           *)
(***************************************************************************)
EXTENDS Integers, Sequences, FiniteSets, TLC

\* ------------------------------------------------------------------------
\* Number representation
\* ------------------------------------------------------------------------
UNIT == 60 * 1000
MINUTE == UNIT \div 60

Abs(x) == IF x < 0 THEN -x ELSE x

RECURSIVE Pow10(_)
Pow10(e) == IF e = 0 THEN 1 ELSE 10 * Pow10(e - 1)

RECURSIVE NumDigits(_)
NumDigits(n) == IF n < 10 THEN 1 ELSE 1 + NumDigits(n \div 10)

\* number | null
Nil == [nil |-> TRUE, v |-> 0]
Some(x) == [nil |-> FALSE, v |-> x]

\* ------------------------------------------------------------------------
\* String representation
\* ------------------------------------------------------------------------
D(n, w) == [k |-> "d", n |-> n, w |-> w]
Ch(c) == [k |-> c, n |-> 0, w |-> 1]
Dn(n) == D(n, NumDigits(n))

IsDigits(t) == t.k = "d"
IsSpace(t) == t.k = " "
IsSep(t) == t.k = "." \/ t.k = ","

Drop(s, n) == IF n >= Len(s) THEN << >> ELSE SubSeq(s, n + 1, Len(s))
Take(s, n) == IF n <= 0 THEN << >> ELSE SubSeq(s, 1, IF n > Len(s) THEN Len(s) ELSE n)

RECURSIVE TrimLeft(_)
TrimLeft(s) == IF s # << >> /\ IsSpace(Head(s)) THEN TrimLeft(Tail(s)) ELSE s

RECURSIVE TrimRight(_)
TrimRight(s) ==
  IF s # << >> /\ IsSpace(s[Len(s)]) THEN TrimRight(Take(s, Len(s) - 1)) ELSE s

\* String.prototype.trim
Trim(s) == TrimRight(TrimLeft(s))

\* String.prototype.toLowerCase on the letters the model uses
LowerCh(t) == IF t.k = "A" THEN Ch("a") ELSE IF t.k = "D" THEN Ch("d") ELSE t
ToLowerCase(s) == [i \in 1..Len(s) |-> LowerCh(s[i])]

StartsWith(s, p) == Len(s) >= Len(p) /\ Take(s, Len(p)) = p
Includes(s, c) == \E i \in 1..Len(s) : s[i].k = c

\* val.replace(',', '.'): the first comma only
RECURSIVE ReplaceComma(_)
ReplaceComma(s) ==
  IF s = << >> THEN << >>
  ELSE IF Head(s).k = "," THEN << Ch(".") >> \o Tail(s)
  ELSE << Head(s) >> \o ReplaceComma(Tail(s))

\* The value of a digit run read as an integer part and as a fraction part.
IntVal(t) == t.n * UNIT
FracVal(t) == (t.n * UNIT) \div Pow10(t.w)

\* parseFloat: leading white space, an optional sign, then digits with an
\* optional fraction, or a fraction alone; the rest of the string is ignored.
\* NaN is returned as Nil.  (Exponents and "Infinity" are not modelled.)
ParseFloat(str) ==
  LET s0 == TrimLeft(str)
      signed == s0 # << >> /\ (Head(s0).k = "-" \/ Head(s0).k = "+")
      sgn == IF s0 # << >> /\ Head(s0).k = "-" THEN -1 ELSE 1
      s == IF signed THEN Tail(s0) ELSE s0
  IN  IF s # << >> /\ IsDigits(s[1])
      THEN IF Len(s) >= 3 /\ s[2].k = "." /\ IsDigits(s[3])
           THEN Some(sgn * (IntVal(s[1]) + FracVal(s[3])))
           ELSE Some(sgn * IntVal(s[1]))
      ELSE IF Len(s) >= 2 /\ s[1].k = "." /\ IsDigits(s[2])
           THEN Some(sgn * FracVal(s[2]))
           ELSE Nil

\* ------------------------------------------------------------------------
\* Cell values
\* ------------------------------------------------------------------------
\* What cell.value may hold: null, a number, a string, a formula object with
\* its cached result (r: "undefined", "num", "str" or "obj"), a hyperlink
\* object with its display text, or another object (a date, an error).
\* Rich-text values are not modelled.
JsNull == [t |-> "null", v |-> 0, s |-> << >>, r |-> ""]
Num(x) == [t |-> "num", v |-> x, s |-> << >>, r |-> ""]
Str(str) == [t |-> "str", v |-> 0, s |-> str, r |-> ""]
FormulaNum(x) == [t |-> "formula", v |-> x, s |-> << >>, r |-> "num"]
FormulaErr == [t |-> "formula", v |-> 0, s |-> << >>, r |-> "obj"]
Hyperlink(str) == [t |-> "link", v |-> 0, s |-> str, r |-> ""]
OtherObject == [t |-> "obj", v |-> 0, s |-> << >>, r |-> ""]

\* A cell: its value, whether it is a merged cell other than its master, and
\* its number format.
Cell(val, follower) == [value |-> val, follower |-> follower, numFmt |-> "General"]

\* getCellValue
getCellValue(cell) ==
  LET val == cell.value
  IN  CASE val.t = "null" -> JsNull
        [] val.t = "formula" ->
             IF val.r = "undefined" \/ val.r = "obj" THEN JsNull
             ELSE IF val.r = "num" THEN Num(val.v) ELSE Str(val.s)
        [] val.t = "link" -> Str(val.s)
        [] val.t = "obj" -> JsNull
        [] OTHER -> val

parseNumber_blankIsZero(val) ==
  IF val.t = "num" THEN Some(val.v)
  ELSE IF val.t = "str"
       THEN IF Trim(val.s) = << >> THEN Some(0) ELSE ParseFloat(ReplaceComma(val.s))
       ELSE Nil

\* parseNumber
parseNumber(val) ==
  IF val.t = "num" THEN Some(val.v)
  ELSE IF val.t = "str"
       THEN IF Trim(val.s) = << >> THEN Nil ELSE ParseFloat(ReplaceComma(val.s))
       ELSE Nil

\* ------------------------------------------------------------------------
\* Angle helpers
\* ------------------------------------------------------------------------
RECURSIVE SkipDegSep(_)
SkipDegSep(s) ==
  IF s # << >> /\ (Head(s).k = "deg" \/ IsSpace(Head(s))) THEN SkipDegSep(Tail(s)) ELSE s

\* dmsRegex = /^(-?\d+)[deg\s]+(\d+)/ : ok, and the two captured groups
DmsMatch(str) ==
  LET neg == str # << >> /\ Head(str).k = "-"
      s == IF neg THEN Tail(str) ELSE str
      hasDeg == Len(s) >= 3 /\ IsDigits(s[1]) /\ (s[2].k = "deg" \/ IsSpace(s[2]))
      rest == IF hasDeg THEN SkipDegSep(Tail(s)) ELSE << >>
  IN  IF hasDeg /\ rest # << >> /\ IsDigits(Head(rest))
      THEN [ok |-> TRUE, neg |-> neg, deg |-> s[1].n, min |-> Head(rest).n]
      ELSE [ok |-> FALSE, neg |-> FALSE, deg |-> 0, min |-> 0]

\* parseAngleToDecimal: Math.abs(deg) + (min / 60) * sign
parseAngleToDecimal(val) ==
  IF val.t = "num" THEN Some(val.v)
  ELSE IF val.t # "str" THEN Nil
  ELSE LET m == DmsMatch(val.s)
           deg == IF m.neg THEN -m.deg ELSE m.deg
           sign == IF deg < 0 THEN -1 ELSE 1
       IN  IF m.ok
           THEN Some(Abs(deg) * UNIT + (m.min * MINUTE) * sign)
           ELSE parseNumber(val)

\* n.toString().padStart(2, '0')
PadStart2(n) == D(n, IF NumDigits(n) < 2 THEN 2 ELSE NumDigits(n))

\* formatAngle
formatAngle(decimalDeg) ==
  LET sign == IF decimalDeg < 0 THEN << Ch("-") >> ELSE << >>
      absVal == Abs(decimalDeg)
      deg == absVal \div UNIT
      \* minPart = (absVal - deg) * 60, min = Math.round(minPart)
      min == ((absVal - deg * UNIT) * 60 + UNIT \div 2) \div UNIT
  IN  sign \o << PadStart2(deg), Ch("deg"), PadStart2(min), Ch("'") >>

\* ------------------------------------------------------------------------
\* Randomization helpers
\* ------------------------------------------------------------------------
\* Math.random() returns r / RandDen for a drawn r in 0..RandDen-1.
RandDen == 3
Draws == 0..(RandDen - 1)

\* Math.random() * span, truncated to the grid
RandomTimes(r, span) == (r * span) \div RandDen

\* parseFloat(x.toFixed(precision)): the nearest multiple of 10^-precision,
\* a tie going away from zero
ToFixed(x, precision) ==
  LET q == UNIT \div Pow10(precision)
      n == (Abs(x) + q \div 2) \div q
  IN  (IF x < 0 THEN -1 ELSE 1) * n * q

\* randomizeInSpec; tolerance * 0.05 is truncated to the grid
randomizeInSpec(min, max, precision, r) ==
  LET tolerance == max - min
      safeMin == min + (tolerance * 5) \div 100
      safeMax == max - (tolerance * 5) \div 100
  IN  IF tolerance <= 0 THEN min
      ELSE IF safeMax <= safeMin
           THEN ToFixed(RandomTimes(r, max - min) + min, precision)
           ELSE ToFixed(RandomTimes(r, safeMax - safeMin) + safeMin, precision)

\* The frame of one call of randomizeOutSpec: its parameters, its locals and
\* where it stands ("loop": at the test of the while loop; "returned": at
\* the return, with accepted telling whether the loop was left by break).
OutSpecCall(originalValue, min, max, precision, angle) ==
  [phase |-> "loop", originalValue |-> originalValue, min |-> min, max |-> max,
   precision |-> precision, isAngle |-> angle,
   newValue |-> originalValue, attempts |-> 0, accepted |-> FALSE]

NoCall ==
  [phase |-> "none", originalValue |-> 0, min |-> 0, max |-> 0,
   precision |-> 0, isAngle |-> FALSE, newValue |-> 0, attempts |-> 0,
   accepted |-> FALSE]

MaxAttempts == 50
DirectionGrace == 20

\* Math.floor(Math.random() * 7) - 3, with 0 replaced by 1
RandomInts == -3..3
NonZero(randomInt) == IF randomInt = 0 THEN 1 ELSE randomInt

\* step: 1/60 for angles, 10^-precision otherwise
StepOf(f) == IF f.isAngle THEN MINUTE ELSE UNIT \div Pow10(f.precision)

\* candidate = originalValue + randomInt * step, rounded unless an angle
Candidate(f, randomInt) ==
  LET c == f.originalValue + NonZero(randomInt) * StepOf(f)
  IN  IF f.isAngle THEN c ELSE ToFixed(c, f.precision)

IsStillOut(f, candidate) == candidate > f.max \/ candidate < f.min

DirectionPreserved(f, candidate) ==
  \/ (f.originalValue > f.max /\ candidate > f.max)
  \/ (f.originalValue < f.min /\ candidate < f.min)

AcceptCandidate_graceFrom20(f, candidate) ==
  /\ IsStillOut(f, candidate)
  /\ (DirectionPreserved(f, candidate) \/ f.attempts >= DirectionGrace)
  /\ candidate # f.originalValue

\* the test of line 139
AcceptCandidate(f, candidate) ==
  /\ IsStillOut(f, candidate)
  /\ (DirectionPreserved(f, candidate) \/ f.attempts > DirectionGrace)
  /\ candidate # f.originalValue

OutSpecStep_storesRejected(f, randomInt) ==
  IF f.attempts < MaxAttempts
  THEN IF AcceptCandidate(f, Candidate(f, randomInt))
       THEN [f EXCEPT !.newValue = Candidate(f, randomInt),
                      !.accepted = TRUE, !.phase = "returned"]
       ELSE [f EXCEPT !.newValue = Candidate(f, randomInt),
                      !.attempts = f.attempts + 1]
  ELSE [f EXCEPT !.phase = "returned"]

\* One test of the while loop, and one pass through its body when it holds.
OutSpecStep(f, randomInt) ==
  IF f.attempts < MaxAttempts
  THEN IF AcceptCandidate(f, Candidate(f, randomInt))
       THEN [f EXCEPT !.newValue = Candidate(f, randomInt),
                      !.accepted = TRUE, !.phase = "returned"]
       ELSE [f EXCEPT !.attempts = f.attempts + 1]
  ELSE [f EXCEPT !.phase = "returned"]

\* The frames a call can return: the loop run from frame f over every
\* sequence of draws.  (Frames at the test of the loop differ in attempts
\* only, so the set holds one frame per accepted candidate and attempt, and
\* the frame of the exhausted loop.)
RECURSIVE OutSpecReturns(_)
OutSpecReturns(f) ==
  IF f.phase = "returned" THEN {f}
  ELSE LET succ == {OutSpecStep(f, randomInt) : randomInt \in RandomInts}
       IN  UNION {OutSpecReturns(g) : g \in succ}

\* The values randomizeOutSpec can return
randomizeOutSpec(originalValue, min, max, precision, angle) ==
  {f.newValue : f \in OutSpecReturns(OutSpecCall(originalValue, min, max, precision, angle))}

\* ------------------------------------------------------------------------
\* The regular expressions of processSheet
\* ------------------------------------------------------------------------
\* /^-?\d*([.,]\d+)?\s*$/.test(cellValueRaw.trim())
IsCleanNumberString(str) ==
  LET t == Trim(str)
      a == IF t # << >> /\ Head(t).k = "-" THEN Tail(t) ELSE t
      b == IF a # << >> /\ IsDigits(Head(a)) THEN Tail(a) ELSE a
  IN  b = << >> \/ (Len(b) = 2 /\ IsSep(b[1]) /\ IsDigits(b[2]))

\* The length of the match of the token pattern at the head of s, 0 if none:
\* /-?\d+[deg\s]\d+'?/ for an angular row, /-?\d+(?:[.,]\d+)?/ otherwise.
MatchLen(s, angle) ==
  LET o == IF s # << >> /\ Head(s).k = "-" THEN 1 ELSE 0
  IN  IF ~(Len(s) >= o + 1 /\ IsDigits(s[o + 1])) THEN 0
      ELSE IF angle
           THEN IF Len(s) >= o + 3 /\ (s[o + 2].k = "deg" \/ IsSpace(s[o + 2]))
                   /\ IsDigits(s[o + 3])
                THEN IF Len(s) >= o + 4 /\ s[o + 4].k = "'" THEN o + 4 ELSE o + 3
                ELSE 0
           ELSE IF Len(s) >= o + 3 /\ IsSep(s[o + 2]) /\ IsDigits(s[o + 3])
                THEN o + 3
                ELSE o + 1

\* The position of the leftmost match in s, 0 if there is none.
FindMatch(s, angle) ==
  LET at == {i \in 1..Len(s) : MatchLen(Drop(s, i - 1), angle) > 0}
  IN  IF at = {} THEN 0 ELSE CHOOSE i \in at : \A j \in at : i <= j

\* newVal.toFixed(2), with the separator of the matched token
ToFixed2Str(x, sep) ==
  LET r == Abs(ToFixed(x, 2))
  IN  (IF x < 0 THEN << Ch("-") >> ELSE << >>)
      \o << Dn(r \div UNIT), Ch(sep), D((r % UNIT) \div (UNIT \div 100), 2) >>

\* The decoding of a value on an angular and on a linear row
Decode(val, angle) == IF angle THEN parseAngleToDecimal(val) ELSE parseNumber(val)

\* precision = isAngle ? 0 : 2
Precision(angle) == IF angle THEN 0 ELSE 2

\* isOut = v > currentMax || v < currentMin
IsOut(v, min, max) == v > max \/ v < min

RowIsAngle_blankIsAngle(cellDesc) ==
  LET descVal == getCellValue(cellDesc)
      text == ToLowerCase(Trim(descVal.s))
  IN  descVal.t # "str"
      \/ StartsWith(text, << Ch("a"), Ch("n"), Ch("g") >>) \/ Includes(text, "deg")

\* The row classification of lines 165-171
RowIsAngle(cellDesc) ==
  LET descVal == getCellValue(cellDesc)
      text == ToLowerCase(Trim(descVal.s))
  IN  descVal.t = "str"
      /\ (StartsWith(text, << Ch("a"), Ch("n"), Ch("g") >>) \/ Includes(text, "deg"))

\* ------------------------------------------------------------------------
\* Inputs of a run
\* ------------------------------------------------------------------------
COL_DESC == 2
COL_UT == 3
COL_LT == 4
\* The sheets have the columns B..LastCol.
LastCol == 6
Cols == COL_DESC..LastCol

MaxSheets == 2
MaxRows == 2

\* A workbook: the rowCount of each of its sheets.
Workbooks == UNION {[1..n -> 0..MaxRows] : n \in 0..MaxSheets}

\* targetCols (0-based): column E, or columns D and E.
TargetChoices == {<< 4 >>, << 3, 4 >>}

Txt(str) == Cell(Str(str), FALSE)
Word_Diam == << Ch("D"), Ch("i"), Ch("a"), Ch("m") >>
Word_Ang == << Ch("A"), Ch("n"), Ch("g") >>
Angle_31_00 == << D(31, 2), Ch("deg"), D(0, 2), Ch("'") >>
Angle_30_10 == << D(30, 2), Ch("deg"), D(10, 2), Ch("'") >>
Angle_30_20 == << D(30, 2), Ch("deg"), D(20, 2), Ch("'") >>
Pair_10_5_10_8 ==
  << D(10, 2), Ch("."), D(5, 1), Ch(" "), Ch("/"), Ch(" "), D(10, 2), Ch("."), D(8, 1) >>

DescSamples == {Cell(JsNull, FALSE), Txt(Word_Diam), Txt(Word_Ang)}
\* The upper and lower tolerance cells of a row
ToleranceSamples ==
  { << Cell(JsNull, FALSE), Cell(JsNull, FALSE) >>,
    << Cell(Num(11 * UNIT), FALSE), Cell(Num(10 * UNIT), FALSE) >>,
    << Txt(Angle_31_00), Txt(Angle_30_10) >>,
    << Cell(Num(11 * UNIT), FALSE), Cell(JsNull, FALSE) >>,
    << Cell(JsNull, FALSE), Cell(Num(10 * UNIT), FALSE) >> }
TargetSamples ==
  { Cell(JsNull, FALSE), Txt(<< >>), Txt(<< Ch(" "), Ch(" ") >>),
    Cell(Num(10 * UNIT + UNIT \div 2), FALSE),
    Cell(Num(11 * UNIT + UNIT \div 100), FALSE),
    Cell(Num(10 * UNIT + UNIT \div 2), TRUE),
    Txt(Pair_10_5_10_8), Txt(Angle_30_20) }
Filler == Txt(<< Ch("o"), Ch("k") >>)

MakeRow(d, tol, e) ==
  [c \in Cols |->
     CASE c = COL_DESC -> d [] c = COL_UT -> tol[1] [] c = COL_LT -> tol[2]
       [] c = COL_LT + 1 -> e [] OTHER -> Filler]

\* The rows of a one-sheet workbook: a description, two tolerance cells,
\* one measured value in column E, and a remark in every further column.
RowSamples ==
  {MakeRow(d, tol, e) : d \in DescSamples, tol \in ToleranceSamples, e \in TargetSamples}

\* The rows of a workbook of several sheets
ShortRowSamples ==
  {MakeRow(Txt(Word_Diam), tol, e) :
     tol \in { << Cell(JsNull, FALSE), Cell(JsNull, FALSE) >>,
               << Cell(Num(11 * UNIT), FALSE), Cell(Num(10 * UNIT), FALSE) >> },
     e \in { Cell(JsNull, FALSE), Cell(Num(10 * UNIT + UNIT \div 2), FALSE),
             Cell(Num(11 * UNIT + UNIT \div 100), FALSE), Txt(Pair_10_5_10_8) }}

\* The rows of a workbook processed with no target column: the tolerance
\* cells of linear and of angular rows.
LatchRowSamples ==
  {MakeRow(Txt(Word_Diam), tol, Cell(Num(10 * UNIT + UNIT \div 2), FALSE)) :
     tol \in { << Cell(JsNull, FALSE), Cell(JsNull, FALSE) >>,
               << Cell(Num(10 * UNIT), FALSE), Cell(Num(0), FALSE) >>,
               << Cell(Num(15 * UNIT), FALSE), Cell(JsNull, FALSE) >>,
               << Txt(<< Ch(" ") >>), Cell(Num(5 * UNIT), FALSE) >> }}
  \cup
  {MakeRow(Txt(Word_Ang), tol, Cell(Num(10 * UNIT + UNIT \div 2), FALSE)) :
     tol \in { << Cell(JsNull, FALSE), Cell(JsNull, FALSE) >>,
               << Txt(Angle_31_00), Txt(Angle_30_10) >> }}

RowsOf(workbook, cols) ==
  IF cols = << >> THEN LatchRowSamples
  ELSE IF Len(workbook) <= 1 THEN RowSamples ELSE ShortRowSamples

\* ------------------------------------------------------------------------
\* State
\* ------------------------------------------------------------------------
VARIABLES
  pc,                \* where processExcelBuffer stands
  sheets,            \* the workbook: the rowCount of each sheet
  targetCols,        \* the parameter targetCols
  sheetIdx,          \* the sheets eachSheet has passed
  validSheetsFound,
  rowsLeft,          \* the rows eachRow has still to visit in this sheet
  stats,
  currentMax,        \* processSheet's latched bounds
  currentMin,
  row,               \* the cells of the row being visited
  row0,              \* the same cells as they were when the row was reached
  isAngle,           \* the callback's local isAngle
  colPos,            \* the position of forEach in excelTargetCols
  rz,                \* the frame of the call of randomizeOutSpec in progress
  rep,               \* the state of cellValueRaw.replace(pattern, ...)
  result,            \* how the promise of processExcelBuffer was settled
  statsBefore,       \* history: stats when the callback of the last cell began
  hist,              \* history: the rows visited so far in this sheet
  fn,                \* input and output of a helper checked on its own
  appState,          \* App: useState<AppState>
  appResult,         \* App: useState<ProcessedResult | null>, the state "result"
  errorMsg,          \* App: useState<string | null>
  selectedColIndices,
  calls,             \* the calls of handleFileSelect that have not yet ended
  started            \* history: how many calls of handleFileSelect have begun

vars ==
  << pc, sheets, targetCols, sheetIdx, validSheetsFound, rowsLeft, stats,
     currentMax, currentMin, row, row0, isAngle, colPos, rz, rep, result,
     statsBefore, hist, fn, appState, appResult, errorMsg,
     selectedColIndices, calls, started >>

appVars == << appState, appResult, errorMsg, selectedColIndices, calls, started >>

\* The state "result" of App when it is null
NoResult == [fileName |-> "", data |-> 0]

\* App as first rendered, with no file chosen
NoApp ==
  /\ appState = "IDLE"
  /\ appResult = NoResult
  /\ errorMsg = "null"
  /\ selectedColIndices = << 4, 5, 6 >>
  /\ calls = {}
  /\ started = 0

ZeroStats ==
  [totalRows |-> 0, processedCells |-> 0, outOfSpecCount |-> 0, inSpecCount |-> 0]

NoReplace ==
  [active |-> FALSE, rest |-> << >>, out |-> << >>, cellModified |-> FALSE]

NoFn ==
  [op |-> "none", a |-> 0, min |-> 0, max |-> 0, precision |-> 0,
   text |-> << >>, out |-> Nil, phase |-> "none"]

Pending == [kind |-> "pending", buffer |-> FALSE, stats |-> ZeroStats]

BlankRow == [c \in Cols |-> Cell(JsNull, FALSE)]

\* processExcelBuffer after workbook.xlsx.load: stats and validSheetsFound
\* are initialised, eachSheet is about to start.
Init ==
  /\ sheets \in Workbooks
  /\ targetCols \in TargetChoices
  /\ pc = "eachSheet"
  /\ sheetIdx = 0
  /\ validSheetsFound = 0
  /\ rowsLeft = 0
  /\ stats = ZeroStats
  /\ currentMax = Nil
  /\ currentMin = Nil
  /\ row = BlankRow
  /\ row0 = BlankRow
  /\ isAngle = FALSE
  /\ colPos = 0
  /\ rz = NoCall
  /\ rep = NoReplace
  /\ result = Pending
  /\ statsBefore = ZeroStats
  /\ hist = << >>
  /\ fn = NoFn
  /\ NoApp

\* ------------------------------------------------------------------------
\* processSheet
\* ------------------------------------------------------------------------
FreshBound_kept(current) == current

\* let currentMax: number | null = null, at every call of processSheet
FreshBound(current) == Nil

Latch_always(current, val) == val

\* if (val !== null) current = val
Latch(current, val) == IF val.nil THEN current ELSE val

WindowInForce_either(max, min) == ~max.nil \/ ~min.nil

\* currentMax !== null && currentMin !== null
WindowInForce(max, min) == ~max.nil /\ ~min.nil

\* excelTargetCols = targetCols.map(c => c + 1)
ExcelTargetCol(i) == targetCols[i] + 1

\* cell.value = formatAngle(newVal), or cell.value = newVal with numFmt
WriteSingle(r, col, newVal, angle) ==
  IF angle
  THEN [r EXCEPT ![col].value = Str(formatAngle(newVal))]
  ELSE [r EXCEPT ![col].value = Num(newVal), ![col].numFmt = "0.00"]

\* The text the replace callback returns for a rewritten token
FormatToken(newVal, match, angle) ==
  IF angle THEN formatAngle(newVal)
  ELSE ToFixed2Str(newVal, IF Includes(match, ",") THEN "," ELSE ".")

Count(s, field) == [s EXCEPT ![field] = s[field] + 1]

CountToken_andCell(s, out) ==
  Count(Count(s, IF out THEN "outOfSpecCount" ELSE "inSpecCount"), "processedCells")

CountToken_cellOnly(s, out) == Count(s, "processedCells")

\* stats.outOfSpecCount++ or stats.inSpecCount++ in the replace callback
CountToken(s, out) == Count(s, IF out THEN "outOfSpecCount" ELSE "inSpecCount")

NoValidSheet_never(n) == n < 0

\* validSheetsFound === 0
NoValidSheet(n) == n = 0

\* The end of the forEach callback for one cell: on to the next target
\* column, or to the end of the row callback when this was the last.
NextCell ==
  IF colPos < Len(targetCols)
  THEN /\ colPos' = colPos + 1
       /\ pc' = "forEach"
  ELSE /\ colPos' = 0
       /\ pc' = "rowEnd"

\* eachSheet reaches the next sheet; with rows it is counted and processSheet
\* starts on it with nothing latched.  eachRow will visit its rows that hold
\* values, at least one and at most rowCount.
VisitSheet ==
  /\ pc = "eachSheet"
  /\ sheetIdx < Len(sheets)
  /\ sheetIdx' = sheetIdx + 1
  /\ IF sheets[sheetIdx + 1] > 0
     THEN /\ validSheetsFound' = validSheetsFound + 1
          /\ currentMax' = FreshBound(currentMax)
          /\ currentMin' = FreshBound(currentMin)
          /\ rowsLeft' \in 1..sheets[sheetIdx + 1]
          /\ pc' = "eachRow"
     ELSE UNCHANGED << validSheetsFound, currentMax, currentMin, rowsLeft, pc >>
  /\ UNCHANGED << sheets, targetCols, stats, row, row0, isAngle, colPos, rz, rep,
                  result, fn, appVars >>
  /\ UNCHANGED statsBefore

\* The eachRow callback up to the forEach over the target columns.
VisitRow ==
  /\ pc = "eachRow"
  /\ rowsLeft > 0
  /\ \E r \in RowsOf(sheets, targetCols) :
       LET angle == RowIsAngle(r[COL_DESC])
           valMax == Decode(getCellValue(r[COL_UT]), angle)
           valMin == Decode(getCellValue(r[COL_LT]), angle)
       IN  /\ row' = r
           /\ row0' = r
           /\ isAngle' = angle
           /\ currentMax' = Latch(currentMax, valMax)
           /\ currentMin' = Latch(currentMin, valMin)
  /\ stats' = Count(stats, "totalRows")
  /\ IF WindowInForce(currentMax', currentMin') /\ Len(targetCols) > 0
     THEN /\ pc' = "forEach"
          /\ colPos' = 1
     ELSE /\ pc' = "rowEnd"
          /\ colPos' = 0
  /\ UNCHANGED << sheets, targetCols, sheetIdx, validSheetsFound, rowsLeft, rz, rep,
                  result, fn, appVars >>
  /\ statsBefore' = stats'

\* The eachRow callback returns: its locals are gone, eachRow goes on.
EndRow ==
  /\ pc = "rowEnd"
  /\ pc' = "eachRow"
  /\ rowsLeft' = rowsLeft - 1
  /\ row' = BlankRow
  /\ row0' = BlankRow
  /\ isAngle' = FALSE
  /\ UNCHANGED << sheets, targetCols, sheetIdx, validSheetsFound, stats, currentMax,
                  currentMin, colPos, rz, rep, result, fn, appVars >>
  /\ UNCHANGED statsBefore

\* processSheet returns when eachRow has visited every row.
EndSheet ==
  /\ pc = "eachRow"
  /\ rowsLeft = 0
  /\ pc' = "eachSheet"
  /\ UNCHANGED << sheets, targetCols, sheetIdx, validSheetsFound, rowsLeft, stats,
                  currentMax, currentMin, row, row0, isAngle, colPos, rz, rep,
                  result, fn, appVars >>
  /\ UNCHANGED statsBefore

\* Case A applies: a number, a clean number string, or any string of an
\* angular row, that decodes.
IsSingleValue(raw, angle) ==
  /\ \/ raw.t = "num"
     \/ (raw.t = "str" /\ IsCleanNumberString(raw.s))
     \/ (angle /\ raw.t = "str")
  /\ ~Decode(raw, angle).nil

IsFollower_never(cell) == FALSE

\* cell.isMerged && cell.address !== cell.master.address
IsFollower(cell) == cell.follower

\* cellValueRaw !== null && cellValueRaw !== ''
HasContent(raw) == raw.t # "null" /\ raw # Str(<< >>)

\* The forEach callback for the cell at colPos, up to its end or, in case B,
\* to the call of replace.
ProcessCell ==
  /\ pc = "forEach"
  /\ LET col == ExcelTargetCol(colPos)
         cell == row[col]
         raw == getCellValue(cell)
         singleVal == Decode(raw, isAngle)
     IN  IF IsFollower(cell) \/ ~HasContent(raw)
         THEN /\ NextCell
              /\ UNCHANGED << row, stats, rz, rep >>
         ELSE IF IsSingleValue(raw, isAngle)
         THEN IF IsOut(singleVal.v, currentMin.v, currentMax.v)
              THEN /\ \E newVal \in randomizeOutSpec(singleVal.v, currentMin.v,
                                           currentMax.v, Precision(isAngle), isAngle) :
                        row' = WriteSingle(row, col, newVal, isAngle)
                   /\ stats' = Count(Count(stats, "outOfSpecCount"), "processedCells")
                   /\ NextCell
                   /\ UNCHANGED << rz, rep >>
              ELSE /\ \E r \in Draws :
                        row' = WriteSingle(row, col,
                                 randomizeInSpec(currentMin.v, currentMax.v,
                                                 Precision(isAngle), r), isAngle)
                   /\ stats' = Count(Count(stats, "inSpecCount"), "processedCells")
                   /\ NextCell
                   /\ UNCHANGED << rz, rep >>
         ELSE IF raw.t = "str" /\ FindMatch(raw.s, isAngle) > 0
         THEN /\ rep' = [active |-> TRUE, rest |-> raw.s, out |-> << >>,
                         cellModified |-> FALSE]
              /\ pc' = "replace"
              /\ UNCHANGED << row, stats, rz, colPos >>
         ELSE /\ NextCell
              /\ UNCHANGED << row, stats, rz, rep >>
  /\ UNCHANGED << sheets, targetCols, sheetIdx, validSheetsFound, rowsLeft,
                  currentMax, currentMin, row0, isAngle, result, fn, appVars >>
  /\ statsBefore' = stats

\* cellValueRaw.replace(pattern, callback): the next match and its callback,
\* or, when no match is left, the end of replace and of case B.
ReplaceRun ==
  /\ pc = "replace"
  /\ LET i == FindMatch(rep.rest, isAngle)
         n == MatchLen(Drop(rep.rest, i - 1), isAngle)
         before == Take(rep.rest, i - 1)
         match == SubSeq(rep.rest, i, i + n - 1)
         after == Drop(rep.rest, i + n - 1)
         val == Decode(Str(match), isAngle)
     IN  IF i = 0
         THEN /\ IF rep.cellModified
                 THEN /\ row' = [row EXCEPT ![ExcelTargetCol(colPos)].value =
                                                Str(rep.out \o rep.rest)]
                      /\ stats' = Count(stats, "processedCells")
                 ELSE UNCHANGED << row, stats >>
              /\ rep' = NoReplace
              /\ NextCell
              /\ UNCHANGED rz
         ELSE IF val.nil
         THEN /\ rep' = [rep EXCEPT !.out = rep.out \o before \o match,
                                    !.rest = after]
              /\ UNCHANGED << pc, row, stats, rz, colPos >>
         ELSE IF IsOut(val.v, currentMin.v, currentMax.v)
         THEN /\ \E newVal \in randomizeOutSpec(val.v, currentMin.v, currentMax.v,
                                                Precision(isAngle), isAngle) :
                   rep' = [rep EXCEPT
                             !.out = rep.out \o before \o FormatToken(newVal, match, isAngle),
                             !.rest = after,
                             !.cellModified = TRUE]
              /\ stats' = CountToken(stats, TRUE)
              /\ UNCHANGED << pc, row, rz, colPos >>
         ELSE /\ \E r \in Draws :
                   rep' = [rep EXCEPT
                             !.out = rep.out \o before \o
                                     FormatToken(randomizeInSpec(currentMin.v, currentMax.v,
                                                   Precision(isAngle), r), match, isAngle),
                             !.rest = after,
                             !.cellModified = TRUE]
              /\ stats' = CountToken(stats, FALSE)
              /\ UNCHANGED << pc, row, rz, colPos >>
  /\ UNCHANGED << sheets, targetCols, sheetIdx, validSheetsFound, rowsLeft,
                  currentMax, currentMin, row0, isAngle, result, fn, appVars >>
  /\ UNCHANGED statsBefore

\* After eachSheet: the error when no sheet had rows, else the workbook is
\* serialised and returned with the stats.
Finish ==
  /\ pc = "eachSheet"
  /\ sheetIdx = Len(sheets)
  /\ IF NoValidSheet(validSheetsFound)
     THEN /\ pc' = "thrown"
          /\ result' = [kind |-> "error", buffer |-> FALSE, stats |-> ZeroStats]
     ELSE /\ pc' = "returned"
          /\ result' = [kind |-> "resolved", buffer |-> TRUE, stats |-> stats]
  /\ UNCHANGED << sheets, targetCols, sheetIdx, validSheetsFound, rowsLeft, stats,
                  currentMax, currentMin, row, row0, isAngle, colPos, rz, rep, fn, appVars >>
  /\ UNCHANGED statsBefore

Next ==
  \/ VisitSheet /\ UNCHANGED hist
  \/ VisitRow /\ UNCHANGED hist
  \/ ProcessCell /\ UNCHANGED hist
  \/ ReplaceRun /\ UNCHANGED hist
  \/ EndRow /\ UNCHANGED hist
  \/ EndSheet /\ UNCHANGED hist
  \/ Finish /\ UNCHANGED hist

Spec == Init /\ [][Next]_vars

\* Runs with no target column, with the rows visited in the sheet recorded.
\* One sheet, or a sheet of one row followed by a second sheet.
LatchWorkbooks ==
  {<< n >> : n \in 1..(MaxRows + 1)} \cup {<< 1, n >> : n \in 0..MaxRows}

InitLatch ==
  /\ sheets \in LatchWorkbooks
  /\ targetCols = << >>
  /\ pc = "eachSheet"
  /\ sheetIdx = 0
  /\ validSheetsFound = 0
  /\ rowsLeft = 0
  /\ stats = ZeroStats
  /\ currentMax = Nil
  /\ currentMin = Nil
  /\ row = BlankRow
  /\ row0 = BlankRow
  /\ isAngle = FALSE
  /\ colPos = 0
  /\ rz = NoCall
  /\ rep = NoReplace
  /\ result = Pending
  /\ statsBefore = ZeroStats
  /\ hist = << >>
  /\ fn = NoFn
  /\ NoApp

NextLatch ==
  \/ VisitSheet /\ hist' = IF pc' = "eachRow" THEN << >> ELSE hist
  \/ VisitRow /\ hist' = Append(hist, row')
  \/ EndRow /\ UNCHANGED hist
  \/ EndSheet /\ UNCHANGED hist
  \/ Finish /\ UNCHANGED hist

SpecLatch == InitLatch /\ [][NextLatch]_vars

\* ------------------------------------------------------------------------
\* The helpers on their own
\* ------------------------------------------------------------------------
\* No run of processExcelBuffer is in progress.
NoRun ==
  /\ pc = "helper"
  /\ sheets = << >>
  /\ targetCols = << >>
  /\ sheetIdx = 0
  /\ validSheetsFound = 0
  /\ rowsLeft = 0
  /\ stats = ZeroStats
  /\ currentMax = Nil
  /\ currentMin = Nil
  /\ row = BlankRow
  /\ row0 = BlankRow
  /\ isAngle = FALSE
  /\ colPos = 0
  /\ rep = NoReplace
  /\ result = Pending
  /\ statsBefore = ZeroStats
  /\ hist = << >>

runVars ==
  << pc, sheets, targetCols, sheetIdx, validSheetsFound, rowsLeft, stats,
     currentMax, currentMin, row, row0, isAngle, colPos, rep, result,
     statsBefore, hist >>

\* formatAngle, then parseAngleToDecimal of its result, on the decimal degrees
\* that are whole numbers of arc-minutes.
MaxAngleMinutes == 125
AngleInputs == {m * MINUTE : m \in (-MaxAngleMinutes)..MaxAngleMinutes}

InitAngle ==
  /\ NoRun
  /\ NoApp
  /\ rz = NoCall
  /\ \E d \in AngleInputs : fn = [NoFn EXCEPT !.op = "angle", !.a = d, !.phase = "input"]

AngleFormat ==
  /\ fn.op = "angle" /\ fn.phase = "input"
  /\ fn' = [fn EXCEPT !.text = formatAngle(fn.a), !.phase = "formatted"]
  /\ UNCHANGED << appVars, runVars, rz >>

AngleParse ==
  /\ fn.op = "angle" /\ fn.phase = "formatted"
  /\ fn' = [fn EXCEPT !.out = parseAngleToDecimal(Str(fn.text)), !.phase = "parsed"]
  /\ UNCHANGED << appVars, runVars, rz >>

NextAngle == AngleFormat \/ AngleParse

SpecAngle == InitAngle /\ [][NextAngle]_vars

\* randomizeInSpec on windows with max > min, for both precisions in use.
InSpecBounds ==
  { 10 * UNIT, 10 * UNIT + UNIT \div 1000, 10 * UNIT + 4 * (UNIT \div 1000),
    10 * UNIT + UNIT \div 100, 10 * UNIT + UNIT \div 2, 11 * UNIT,
    30 * UNIT + 10 * MINUTE, 30 * UNIT + 50 * MINUTE, 31 * UNIT }

InitInSpec ==
  /\ NoRun
  /\ NoApp
  /\ rz = NoCall
  /\ \E lo \in InSpecBounds, hi \in InSpecBounds, p \in {Precision(TRUE), Precision(FALSE)} :
       /\ hi > lo
       /\ fn = [NoFn EXCEPT !.op = "inSpec", !.min = lo, !.max = hi, !.precision = p,
                            !.phase = "input"]

InSpecDraw ==
  /\ fn.op = "inSpec" /\ fn.phase = "input"
  /\ \E r \in Draws :
       fn' = [fn EXCEPT !.out = Some(randomizeInSpec(fn.min, fn.max, fn.precision, r)),
                        !.phase = "returned"]
  /\ UNCHANGED << appVars, runVars, rz >>

NextInSpec == InSpecDraw

SpecInSpec == InitInSpec /\ [][NextInSpec]_vars

\* randomizeOutSpec, one test of its loop at a time, on values outside a
\* window with min <= max.
OutSpecWindows ==
  { << 10 * UNIT, 10 * UNIT + UNIT \div 100 >>, << 10 * UNIT, 11 * UNIT >>,
    << 30 * UNIT + 10 * MINUTE, 30 * UNIT + 11 * MINUTE >>,
    << 30 * UNIT + 10 * MINUTE, 31 * UNIT >>, << 10 * UNIT, 10 * UNIT >> }
OutSpecValues ==
  { 10 * UNIT - UNIT \div 100, 10 * UNIT + 2 * (UNIT \div 100),
    10 * UNIT + 13 * (UNIT \div 1000), 11 * UNIT + UNIT \div 100,
    30 * UNIT + 9 * MINUTE, 30 * UNIT + 12 * MINUTE, 31 * UNIT + MINUTE,
    10 * UNIT + UNIT \div 2 }

InitOutSpec ==
  /\ NoRun
  /\ fn = NoFn
  /\ NoApp
  /\ \E w \in OutSpecWindows, v \in OutSpecValues, angle \in BOOLEAN :
       /\ IsOut(v, w[1], w[2])
       /\ rz = OutSpecCall(v, w[1], w[2], Precision(angle), angle)

OutSpecLoop ==
  /\ rz.phase = "loop"
  /\ \E randomInt \in RandomInts : rz' = OutSpecStep(rz, randomInt)
  /\ UNCHANGED << appVars, runVars, fn >>

NextOutSpec == OutSpecLoop

SpecOutSpec == InitOutSpec /\ [][NextOutSpec]_vars

\* Runs on workbooks of several sheets, with the description and tolerance
\* cells of the rows visited so far in this sheet recorded.
SheetsWorkbooks == {w \in Workbooks : Len(w) >= 2}

TolerancesOnly(r) ==
  [c \in Cols |-> IF c \in {COL_DESC, COL_UT, COL_LT} THEN r[c] ELSE Cell(JsNull, FALSE)]

InitSheets ==
  /\ sheets \in SheetsWorkbooks
  /\ targetCols \in TargetChoices
  /\ pc = "eachSheet"
  /\ sheetIdx = 0
  /\ validSheetsFound = 0
  /\ rowsLeft = 0
  /\ stats = ZeroStats
  /\ currentMax = Nil
  /\ currentMin = Nil
  /\ row = BlankRow
  /\ row0 = BlankRow
  /\ isAngle = FALSE
  /\ colPos = 0
  /\ rz = NoCall
  /\ rep = NoReplace
  /\ result = Pending
  /\ statsBefore = ZeroStats
  /\ hist = << >>
  /\ fn = NoFn
  /\ NoApp

NextSheets ==
  \/ VisitSheet /\ hist' = IF pc' = "eachRow" THEN << >> ELSE hist
  \/ VisitRow /\ hist' = Append(hist, TolerancesOnly(row'))
  \/ ProcessCell /\ UNCHANGED hist
  \/ ReplaceRun /\ UNCHANGED hist
  \/ EndRow /\ UNCHANGED hist
  \/ EndSheet /\ UNCHANGED hist
  \/ Finish /\ UNCHANGED hist

SpecSheets == InitSheets /\ [][NextSheets]_vars

\* The out-of-spec branch of the single-value case for one cell of column
\* E, with the loop of randomizeOutSpec taken one test at a time: the call,
\* then the write-back and the two counters.
OutCellSamples ==
  {Cell(Num(v), FALSE) : v \in OutSpecValues}
    \cup {Txt(<< D(31, 2), Ch("deg"), D(1, 2), Ch("'") >>),
          Txt(<< D(30, 2), Ch("deg"), D(9, 2), Ch("'") >>)}

InitOutCell ==
  /\ pc = "outCall"
  /\ sheets = << 1 >>
  /\ targetCols = << 4 >>
  /\ sheetIdx = 1
  /\ validSheetsFound = 1
  /\ rowsLeft = 1
  /\ stats = [ZeroStats EXCEPT !.totalRows = 1]
  /\ statsBefore = stats
  /\ colPos = 1
  /\ rep = NoReplace
  /\ result = Pending
  /\ hist = << >>
  /\ fn = NoFn
  /\ NoApp
  /\ isAngle \in BOOLEAN
  /\ \E w \in OutSpecWindows, cell \in OutCellSamples :
       LET singleVal == Decode(getCellValue(cell), isAngle)
       IN  /\ ~singleVal.nil
           /\ IsOut(singleVal.v, w[1], w[2])
           /\ currentMin = Some(w[1])
           /\ currentMax = Some(w[2])
           /\ row0 = [BlankRow EXCEPT ![ExcelTargetCol(1)] = cell]
           /\ row = row0
           /\ rz = OutSpecCall(singleVal.v, w[1], w[2], Precision(isAngle), isAngle)

OutCellLoop ==
  /\ pc = "outCall"
  /\ rz.phase = "loop"
  /\ \E randomInt \in RandomInts : rz' = OutSpecStep(rz, randomInt)
  /\ UNCHANGED << appVars, runVars, fn >>

\* newVal is back: stats.outOfSpecCount++, the write, stats.processedCells++
OutCellWrite ==
  /\ pc = "outCall"
  /\ rz.phase = "returned"
  /\ row' = WriteSingle(row, ExcelTargetCol(colPos), rz.newValue, isAngle)
  /\ stats' = Count(Count(stats, "outOfSpecCount"), "processedCells")
  /\ pc' = "cellDone"
  /\ UNCHANGED << sheets, targetCols, sheetIdx, validSheetsFound, rowsLeft,
                  currentMax, currentMin, row0, isAngle, colPos, rz, rep, result,
                  statsBefore, hist, fn, appVars >>

NextOutCell == OutCellLoop \/ OutCellWrite

\* The loop and the callback are straight-line code of one thread: a step
\* that can be taken is taken.
SpecOutCell == InitOutCell /\ [][NextOutCell]_vars /\ WF_vars(NextOutCell)

\* ------------------------------------------------------------------------
\* App and Dropzone
\* ------------------------------------------------------------------------
\* The files a user can offer: two workbooks and a text file.
Files ==
  { [name |-> "a", ext |-> "xlsx", type |-> ""],
    [name |-> "b", ext |-> "xlsm", type |-> "application/vnd.ms-excel.sheet.macroEnabled.12"],
    [name |-> "notes", ext |-> "txt", type |-> "text/plain"] }

\* AVAILABLE_COLUMNS
ColumnIndices == 4..7

\* The calls of handleFileSelect one session makes
MaxStarts == 3

validateFile(file) ==
  \/ file.type \in { "application/vnd.openxmlformats-officedocument.spreadsheetml.sheet",
                     "application/vnd.ms-excel",
                     "application/vnd.ms-excel.sheet.macroEnabled.12" }
  \/ file.ext \in {"xlsx", "xls", "xlsm"}

\* App renders Dropzone unless ResultsSummary takes its place.
DropzoneRendered == ~(appState = "COMPLETED" /\ appResult # NoResult)

\* The prop isLoading
isLoading == appState = "PROCESSING"

InitApp ==
  /\ NoRun
  /\ rz = NoCall
  /\ fn = NoFn
  /\ NoApp

\* handleFileSelect up to its first await
handleFileSelect(file) ==
  /\ started < MaxStarts
  /\ started' = started + 1
  /\ IF Len(selectedColIndices) = 0
     THEN /\ errorMsg' = "select a column"
          /\ appState' = "ERROR"
          /\ UNCHANGED calls
     ELSE /\ appState' = "PROCESSING"
          /\ errorMsg' = "null"
          /\ calls' = calls \cup {[id |-> started + 1, file |-> file, at |-> "arrayBuffer"]}
  /\ UNCHANGED << appResult, selectedColIndices >>

\* A click on the Dropzone, and the change event of the file input for the
\* file picked in the dialog
handleChange ==
  /\ DropzoneRendered
  /\ ~isLoading
  /\ \E file \in Files :
       IF validateFile(file) THEN handleFileSelect(file) ELSE UNCHANGED appVars
  /\ UNCHANGED << runVars, rz, fn >>

\* handleDrop
handleDrop ==
  /\ DropzoneRendered
  /\ \E file \in Files :
       IF validateFile(file) THEN handleFileSelect(file) ELSE UNCHANGED appVars
  /\ UNCHANGED << runVars, rz, fn >>

\* An await of handleFileSelect resolves: arrayBuffer, then the delay.
Resume ==
  /\ \E c \in calls :
       /\ c.at \in {"arrayBuffer", "delay"}
       /\ calls' = (calls \ {c}) \cup
                     {[c EXCEPT !.at = IF c.at = "arrayBuffer" THEN "delay"
                                       ELSE "processExcelBuffer"]}
  /\ UNCHANGED << appState, appResult, errorMsg, selectedColIndices, started >>
  /\ UNCHANGED << runVars, rz, fn >>

\* processExcelBuffer resolves: setResult, setAppState(COMPLETED)
Complete ==
  /\ \E c \in calls :
       /\ c.at = "processExcelBuffer"
       /\ calls' = calls \ {c}
       /\ appResult' = [fileName |-> c.file.name, data |-> c.id]
  /\ appState' = "COMPLETED"
  /\ UNCHANGED << errorMsg, selectedColIndices, started >>
  /\ UNCHANGED << runVars, rz, fn >>

\* file.arrayBuffer() or processExcelBuffer rejects: the catch block
Fail ==
  /\ \E c \in calls :
       /\ c.at \in {"arrayBuffer", "processExcelBuffer"}
       /\ calls' = calls \ {c}
  /\ errorMsg' = "failed"
  /\ appState' = "ERROR"
  /\ UNCHANGED << appResult, selectedColIndices, started >>
  /\ UNCHANGED << runVars, rz, fn >>

toggleColumn ==
  /\ appState = "IDLE"
  /\ \E index \in ColumnIndices :
       selectedColIndices' =
         IF \E i \in 1..Len(selectedColIndices) : selectedColIndices[i] = index
         THEN SelectSeq(selectedColIndices, LAMBDA i : i # index)
         ELSE Append(selectedColIndices, index)
  /\ UNCHANGED << appState, appResult, errorMsg, calls, started >>
  /\ UNCHANGED << runVars, rz, fn >>

\* resetApp, from ResultsSummary or from the button of the error message
resetApp ==
  /\ (appState = "COMPLETED" /\ appResult # NoResult) \/ appState = "ERROR"
  /\ appState' = "IDLE"
  /\ appResult' = NoResult
  /\ errorMsg' = "null"
  /\ UNCHANGED << selectedColIndices, calls, started >>
  /\ UNCHANGED << runVars, rz, fn >>

NextApp ==
  \/ handleChange
  \/ handleDrop
  \/ Resume
  \/ Complete
  \/ Fail
  \/ toggleColumn
  \/ resetApp

SpecApp == InitApp /\ [][NextApp]_vars

\* ------------------------------------------------------------------------
\* Claims
\* ------------------------------------------------------------------------
BothLatched == ~currentMax.nil /\ ~currentMin.nil

\* The callback of the i-th target column of the row being visited has ended.
CellDone(i) ==
  \/ (pc = "rowEnd" /\ BothLatched)
  \/ (pc \in {"forEach", "replace"} /\ i < colPos)

\* The i-th target cell of the row was handled by case A.
WasSingleValue(i) ==
  LET cell0 == row0[ExcelTargetCol(i)]
  IN  /\ CellDone(i)
      /\ ~IsFollower(cell0)
      /\ HasContent(getCellValue(cell0))
      /\ IsSingleValue(getCellValue(cell0), isAngle)

\* C1: a cell rewritten in the single-value case, decoded again the way it
\* was read, is out of the active window exactly if the value it held was.
C1_ClassificationPreserved ==
  \A i \in 1..Len(targetCols) :
    WasSingleValue(i) =>
      LET before == Decode(getCellValue(row0[ExcelTargetCol(i)]), isAngle)
          after == Decode(getCellValue(row[ExcelTargetCol(i)]), isAngle)
      IN  /\ ~after.nil
          /\ IsOut(after.v, currentMin.v, currentMax.v)
               <=> IsOut(before.v, currentMin.v, currentMax.v)

\* C2: on a window with max > min the value randomizeInSpec returns lies in
\* [min, max] and is a multiple of 10^-precision.
C2_InSpecWithinWindow ==
  (fn.op = "inSpec" /\ fn.phase = "returned") =>
    /\ fn.min <= fn.out.v /\ fn.out.v <= fn.max
    /\ fn.out.v = ToFixed(fn.out.v, fn.precision)

\* The value returned is on the side of the window the original was on.
SameSide(f) ==
  /\ (f.originalValue > f.max => f.newValue > f.max)
  /\ (f.originalValue < f.min => f.newValue < f.min)

\* C3: what randomizeOutSpec returns for a value outside the window is
\* outside the window; an accepted candidate differs from the original, and
\* one accepted at an attempt index <= 20 is on the original's side.
C3_OutSpecStaysOut ==
  rz.phase = "returned" =>
    /\ IsStillOut(rz, rz.newValue)
    /\ (rz.accepted => rz.newValue # rz.originalValue)
    /\ (rz.accepted /\ rz.attempts <= DirectionGrace => SameSide(rz))

\* A candidate on the other side of the window is accepted at attempt 21.
C3_Witness ==
  /\ rz.phase = "returned"
  /\ rz.accepted
  /\ rz.attempts = DirectionGrace + 1
  /\ ~SameSide(rz)
  /\ IsStillOut(rz, rz.newValue)

\* C5: parseAngleToDecimal(formatAngle(d)) = d for every d that is a whole
\* number of arc-minutes.
C5_AngleRoundTrip ==
  (fn.op = "angle" /\ fn.phase = "parsed") => fn.out = Some(fn.a)

\* The decoded upper (col = COL_UT) or lower (col = COL_LT) tolerance of a
\* visited row
ToleranceOf(r, col) == Decode(getCellValue(r[col]), RowIsAngle(r[COL_DESC]))

\* The tolerance of the most recent of the rows that has one, else null
RECURSIVE MostRecent(_, _)
MostRecent(rows, col) ==
  IF rows = << >> THEN Nil
  ELSE IF ~ToleranceOf(rows[Len(rows)], col).nil THEN ToleranceOf(rows[Len(rows)], col)
  ELSE MostRecent(Take(rows, Len(rows) - 1), col)

\* C4: the bounds in force are, each on its own, the decoded tolerance of
\* the most recent row of the sheet that supplied one.
C4_Latching ==
  pc \in {"eachRow", "rowEnd"} =>
    /\ currentMax = MostRecent(hist, COL_UT)
    /\ currentMin = MostRecent(hist, COL_LT)

\* Rows with bounds [0, 10], with no bounds and with upper bound 15 only
\* have been visited: the window is [0, 15].
C4_Witness ==
  /\ pc = "rowEnd"
  /\ Len(hist) = 3
  /\ ToleranceOf(hist[1], COL_UT) = Some(10 * UNIT)
  /\ ToleranceOf(hist[1], COL_LT) = Some(0)
  /\ ToleranceOf(hist[2], COL_UT) = Nil /\ ToleranceOf(hist[2], COL_LT) = Nil
  /\ ToleranceOf(hist[3], COL_UT) = Some(15 * UNIT)
  /\ ToleranceOf(hist[3], COL_LT) = Nil
  /\ currentMax = Some(15 * UNIT)
  /\ currentMin = Some(0)

\* The target column whose callback ended last in the row being visited,
\* 0 if none has; statsBefore holds the stats from before that callback.
LastCell ==
  IF pc = "rowEnd" THEN (IF BothLatched THEN Len(targetCols) ELSE 0)
  ELSE IF pc = "forEach" THEN colPos - 1
  ELSE 0

LastCell0 == row0[ExcelTargetCol(LastCell)]

\* The i-th target cell of the row was handled by case B and held a token.
WasComposite(i) ==
  LET cell0 == row0[ExcelTargetCol(i)]
      raw == getCellValue(cell0)
  IN  /\ CellDone(i)
      /\ ~IsFollower(cell0)
      /\ HasContent(raw)
      /\ ~IsSingleValue(raw, isAngle)
      /\ raw.t = "str"
      /\ FindMatch(raw.s, isAngle) > 0

\* The decodable tokens of a string that are in and out of the window
RECURSIVE CountTokens(_, _, _, _)
CountTokens(s, angle, min, max) ==
  LET i == FindMatch(s, angle)
      n == MatchLen(Drop(s, i - 1), angle)
      val == Decode(Str(SubSeq(s, i, i + n - 1)), angle)
      rest == CountTokens(Drop(s, i + n - 1), angle, min, max)
  IN  IF i = 0 THEN [in |-> 0, out |-> 0]
      ELSE IF val.nil THEN rest
      ELSE IF val.v > max \/ val.v < min THEN [rest EXCEPT !.out = rest.out + 1]
      ELSE [rest EXCEPT !.in = rest.in + 1]

\* C6: a cell rewritten in the single-value case adds 1 to processedCells
\* and 1 to the one of inSpecCount and outOfSpecCount that its value belongs
\* to; a composite string adds 1 to processedCells and, for each of its
\* tokens, 1 to the counter that the token's own value belongs to.
C6_CountedOnce ==
  LastCell >= 1 =>
    LET raw == getCellValue(LastCell0)
        v == Decode(raw, isAngle).v
        c == CountTokens(raw.s, isAngle, currentMin.v, currentMax.v)
    IN  /\ WasSingleValue(LastCell) =>
             stats = [statsBefore EXCEPT
                        !.processedCells = @ + 1,
                        !.inSpecCount =
                           IF v > currentMax.v \/ v < currentMin.v THEN @ ELSE @ + 1,
                        !.outOfSpecCount =
                           IF v > currentMax.v \/ v < currentMin.v THEN @ + 1 ELSE @]
        /\ WasComposite(LastCell) =>
             /\ c.in + c.out >= 1
             /\ stats = [statsBefore EXCEPT !.processedCells = @ + 1,
                                            !.inSpecCount = @ + c.in,
                                            !.outOfSpecCount = @ + c.out]

\* "10.5 / 10.8" in the window [10.0, 11.0] of a linear row has been
\* rewritten: inSpecCount is up by 2, processedCells by 1.
C6_Witness ==
  /\ pc = "rowEnd"
  /\ ~isAngle
  /\ currentMin = Some(10 * UNIT) /\ currentMax = Some(11 * UNIT)
  /\ targetCols = << 4 >>
  /\ row0[5] = Txt(Pair_10_5_10_8)
  /\ row[5] # row0[5]
  /\ stats = [statsBefore EXCEPT !.processedCells = @ + 1, !.inSpecCount = @ + 2]

\* C7: processExcelBuffer throws exactly when no sheet has rows, and then
\* nothing was serialised; otherwise it returns the buffer and the stats.
C7_NoData ==
  /\ pc = "thrown" =>
       /\ \A i \in 1..Len(sheets) : sheets[i] = 0
       /\ result.kind = "error" /\ ~result.buffer
  /\ pc = "returned" =>
       /\ \E i \in 1..Len(sheets) : sheets[i] > 0
       /\ result = [kind |-> "resolved", buffer |-> TRUE, stats |-> stats]
  /\ pc \notin {"thrown", "returned"} => result = Pending

\* A workbook of two sheets without rows has been refused.
C7_Witness ==
  /\ pc = "thrown"
  /\ Len(sheets) = 2
  /\ result.kind = "error"

\* C8: a cell outside the target columns, and a target cell that is a merge
\* follower, keeps its value and format; a follower is not counted.
C8_Frame ==
  /\ \A c \in Cols :
       ((\A i \in 1..Len(targetCols) : c # ExcelTargetCol(i)) \/ row0[c].follower)
         => row[c] = row0[c]
  /\ (LastCell >= 1 /\ LastCell0.follower) => stats = statsBefore

\* With target columns D and E: the cell in D has been rewritten, the
\* follower in E has not.
C8_Witness ==
  /\ pc = "rowEnd"
  /\ BothLatched
  /\ targetCols = << 3, 4 >>
  /\ row[4] # row0[4]
  /\ row0[5].follower
  /\ HasContent(getCellValue(row0[5]))
  /\ row[5] = row0[5]
  /\ stats = statsBefore

IsEmptyValue(raw) == raw.t = "null" \/ (raw.t = "str" /\ Trim(raw.s) = << >>)

\* C9: an empty or blank target cell is not rewritten and changes no counter.
C9_EmptyCellUntouched ==
  (LastCell >= 1 /\ IsEmptyValue(getCellValue(LastCell0))) =>
    /\ stats = statsBefore
    /\ row[ExcelTargetCol(LastCell)] = LastCell0

\* A blank cell of an angular row has been passed with a window in force.
C9_Witness ==
  /\ pc = "rowEnd"
  /\ BothLatched
  /\ isAngle
  /\ LastCell >= 1
  /\ LastCell0 = Txt(<< Ch(" "), Ch(" ") >>)
  /\ stats = statsBefore
  /\ row = row0

\* C10: the callback of a row reaches the target columns only with both
\* bounds latched; a row visited with a bound missing is counted in
\* totalRows and nothing else changes.
C10_NoWindowNoProcessing ==
  [][ /\ (pc' \in {"forEach", "replace"} => BothLatched')
      /\ (pc = "eachRow" /\ pc' \in {"forEach", "rowEnd"}) =>
           /\ stats'.totalRows = stats.totalRows + 1
           /\ ~BothLatched' =>
                /\ pc' = "rowEnd"
                /\ row' = row0'
                /\ stats' = [stats EXCEPT !.totalRows = @ + 1] ]_vars

\* A row with a value in column E has been visited with the upper bound
\* latched and the lower bound missing.
C10_Witness ==
  /\ pc = "rowEnd"
  /\ ~currentMax.nil /\ currentMin.nil
  /\ row0[5] = Cell(Num(10 * UNIT + UNIT \div 2), FALSE)
  /\ row = row0
  /\ stats = [ZeroStats EXCEPT !.totalRows = 1]

\* C11: the loop of randomizeOutSpec makes at most 50 attempts and ends;
\* when no candidate was accepted the original value is returned, nothing
\* is raised, and the cell is written back and counted in outOfSpecCount
\* and in processedCells.
C11_ExhaustedKeepsOriginal ==
  /\ [](rz.attempts <= MaxAttempts /\ result = Pending)
  /\ <>(pc = "cellDone")
  /\ []((rz.phase = "returned" /\ ~rz.accepted) =>
          /\ rz.attempts = MaxAttempts
          /\ rz.newValue = rz.originalValue)
  /\ []((pc = "cellDone" /\ ~rz.accepted) =>
          /\ row = WriteSingle(row0, ExcelTargetCol(colPos), rz.originalValue, isAngle)
          /\ stats = [statsBefore EXCEPT !.outOfSpecCount = @ + 1,
                                         !.processedCells = @ + 1])

\* 11.01 above the window [10, 11]: fifty candidates were refused, the cell
\* holds 11.01 and has been counted.
C11_Witness ==
  /\ pc = "cellDone"
  /\ ~rz.accepted
  /\ rz.attempts = MaxAttempts
  /\ ~isAngle
  /\ rz.originalValue = 11 * UNIT + UNIT \div 100
  /\ row[5].value = Num(11 * UNIT + UNIT \div 100)
  /\ stats.processedCells = 1 /\ stats.outOfSpecCount = 1

\* The description text is angular: trimmed and lower-cased it starts with
\* "ang" or holds the degree glyph.
DescIsAngular(cell) ==
  LET v == getCellValue(cell)
      text == ToLowerCase(Trim(v.s))
  IN  /\ v.t = "str"
      /\ \/ (Len(text) >= 3 /\ text[1].k = "a" /\ text[2].k = "n" /\ text[3].k = "g")
         \/ \E i \in 1..Len(text) : text[i].k = "deg"

\* What the row being visited shows of its classification: isAngle is that
\* of its own description; on a row without description text the cell that
\* ended last was read by parseNumber, counted by that value, and a single
\* value was written back as a number of format 0.00 at most three steps of
\* 0.01 from the original when it was out of the window.
RowReadAsOwnKind ==
  /\ isAngle = DescIsAngular(row0[COL_DESC])
  /\ getCellValue(row0[COL_DESC]).t # "str" => ~isAngle
  /\ (getCellValue(row0[COL_DESC]).t # "str" /\ LastCell >= 1
        /\ ~LastCell0.follower /\ getCellValue(LastCell0).t = "num") =>
       LET orig == getCellValue(LastCell0).v
           new == row[ExcelTargetCol(LastCell)]
           out == orig > currentMax.v \/ orig < currentMin.v
       IN  /\ new.value.t = "num"
           /\ new.numFmt = "0.00"
           /\ new.value.v = ToFixed(new.value.v, 2)
           /\ out => Abs(new.value.v - orig) \in {k * (UNIT \div 100) : k \in 0..3}
           /\ stats = [statsBefore EXCEPT
                         !.processedCells = @ + 1,
                         !.outOfSpecCount = IF out THEN @ + 1 ELSE @,
                         !.inSpecCount = IF out THEN @ ELSE @ + 1]

\* C12: the angular/linear classification is not latched.  Every row is
\* classified by its own description cell; a row without description text
\* is linear also under bounds latched from an angular row: its tolerance
\* and target cells are read by parseNumber, precision 2 is used, numbers
\* are written back, and a bound its tolerance cell does not give is kept.
C12_ClassificationNotLatched ==
  [][ /\ pc' \in {"forEach", "replace", "rowEnd"} => RowReadAsOwnKind'
      /\ (pc = "eachRow" /\ pc' \in {"forEach", "rowEnd"}
            /\ getCellValue(row'[COL_DESC]).t # "str") =>
           LET valMax == parseNumber(getCellValue(row'[COL_UT]))
               valMin == parseNumber(getCellValue(row'[COL_LT]))
           IN  /\ currentMax' = IF valMax.nil THEN currentMax ELSE valMax
               /\ currentMin' = IF valMin.nil THEN currentMin ELSE valMin ]_vars

\* Second row of a sheet, without description and without tolerances, under
\* the window [30 deg 10', 31 deg] latched from an angular row: 10.5 was
\* counted out of the window and rewritten as a number.
C12_Witness ==
  /\ pc = "rowEnd"
  /\ stats.totalRows = 2
  /\ getCellValue(row0[COL_DESC]).t = "null"
  /\ getCellValue(row0[COL_UT]).t = "null"
  /\ getCellValue(row0[COL_LT]).t = "null"
  /\ ~isAngle
  /\ currentMax = Some(31 * UNIT)
  /\ currentMin = Some(30 * UNIT + 10 * MINUTE)
  /\ row0[5] = Cell(Num(10 * UNIT + UNIT \div 2), FALSE)
  /\ row[5].value.t = "num"
  /\ row[5].value.v # row0[5].value.v
  /\ row[5].numFmt = "0.00"
  /\ stats.outOfSpecCount = statsBefore.outOfSpecCount + 1

\* A row of this sheet visited so far gave the bound of column col.
SheetGave(col) == \E i \in 1..Len(hist) : ~ToleranceOf(hist[i], col).nil

\* C13: the latch belongs to one sheet, the statistics to the run.  When a
\* sheet starts both bounds are null and the counters are as the sheets
\* before left them; a bound is in force only when a row of this sheet gave
\* it, and target cells are reached only then; the stats returned are the
\* counters accumulated over all sheets.
C13_LatchPerSheetStatsPerRun ==
  [][ /\ (pc = "eachSheet" /\ pc' = "eachRow") =>
           /\ currentMax' = Nil /\ currentMin' = Nil
           /\ stats' = stats
      /\ (pc' \in {"eachRow", "forEach", "replace", "rowEnd"}) =>
           /\ ~currentMax'.nil => SheetGave(COL_UT)'
           /\ ~currentMin'.nil => SheetGave(COL_LT)'
      /\ (pc' \in {"forEach", "replace"}) => (SheetGave(COL_UT)' /\ SheetGave(COL_LT)')
      /\ (pc = "rowEnd" /\ pc' = "eachSheet") => stats' = stats
      /\ (pc' = "returned") => result'.stats = stats ]_vars

\* First row of the second sheet, without tolerances, after a first sheet
\* that had a window and a rewritten cell: no bound is in force, the cell in
\* column E is as it was, and the counters of the first sheet are kept.
C13_Witness ==
  /\ pc = "rowEnd"
  /\ sheetIdx = 2
  /\ Len(hist) = 1
  /\ currentMax = Nil /\ currentMin = Nil
  /\ row0[5] = Cell(Num(10 * UNIT + UNIT \div 2), FALSE)
  /\ row = row0
  /\ stats.processedCells >= 1
  /\ stats.totalRows >= 2

StatsBounded ==
  /\ stats.processedCells <= stats.inSpecCount + stats.outOfSpecCount
  /\ stats.processedCells <= stats.totalRows * Len(targetCols)

StatsMonotone ==
  /\ stats'.totalRows >= stats.totalRows
  /\ stats'.processedCells >= stats.processedCells
  /\ stats'.inSpecCount >= stats.inSpecCount
  /\ stats'.outOfSpecCount >= stats.outOfSpecCount

\* C14: in every state of a run processedCells is at most inSpecCount +
\* outOfSpecCount and at most totalRows times the number of target columns,
\* and no step makes a counter smaller.
C14_CountersBoundedMonotone == [](StatsBounded) /\ [][StatsMonotone]_vars

\* One row with target columns D and E: both cells were rewritten, so
\* processedCells = totalRows * 2, and the two tokens of the cell in E make
\* inSpecCount + outOfSpecCount larger than processedCells.
C14_Witness ==
  /\ pc = "returned"
  /\ targetCols = << 3, 4 >>
  /\ stats.totalRows = 1
  /\ stats.processedCells = stats.totalRows * Len(targetCols)
  /\ stats.inSpecCount + stats.outOfSpecCount = 3
  /\ result.stats = stats

\* C15: at most one call of handleFileSelect is in flight: while appState
\* is PROCESSING no call is started, so what a run set is not overwritten by
\* a run started while it was processing.
C15_SingleRunInFlight ==
  /\ Cardinality(calls) <= 1
  /\ (appState = "COMPLETED" /\ appResult # NoResult) =>
       \A c \in calls : c.id < appResult.data

====
